---- MODULE Spec2Model ----
(***************************************************************************)
(* Model of fargin.  The feature record store (src/src/features.rs): a    *)
(* FeatureManager holding an in-memory index of Feature records, backed    *)
(* by one Markdown file per feature under .fargin/features.  Further down: *)
(* facts (facts.rs), validation (validation.rs), suggestions (suggest.rs), *)
(* feature health and the project checks (check.rs), the loop of runs      *)
(* (lib.rs), the store next to another writer, and project initialisation  *)
(* (config.rs), each with its own specification over its own variables.    *)
(*                                                                         *)
(* Text is modelled as a sequence of chunks.  A chunk is a TLA+ string     *)
(* standing for that exact piece of text; single characters are chunks of  *)
(* length one.  The literal "# Feature: " is one chunk: no other chunk of  *)
(* the model contains '#', so that literal occurs in a text exactly where  *)
(* the chunk occurs.                                                       *)
(***************************************************************************)
EXTENDS Integers, Sequences, FiniteSets, TLC

VARIABLES
    files,      \* .fargin/features: file name -> content
    features,   \* FeatureManager.features: id -> Feature
    now,        \* the wall clock, in seconds
    last,       \* the last call on the manager: operation, arguments, result
    ops,        \* how many constructions, clock steps and mutating calls so far
    factFiles,  \* .fargin/{prompts,history,templates}: file name -> text
    held,       \* the Fact value the caller holds, if any
    flast,      \* the last call on facts: operation, arguments, result
    input,      \* the project a report function is applied to, and its arguments
    output,     \* the function applied and what it returned, once it has
    run,        \* a run_project_checks call: the caller, the tools, their output
    loop        \* the loop of runs: its counter, the working directory, the runs made

vars == <<files, features, now, last, ops, factFiles, held, flast, input, output, run,
          loop>>

\* what the feature store does not touch
notStore == <<factFiles, held, flast, input, output, run, loop>>

\* what the fact operations do not touch
notFacts == <<files, features, last, input, output, run, loop>>

\* what the report functions do not touch
notReports == <<files, features, now, last, ops, factFiles, held, flast, run, loop>>

\* what a run of the project checks does not touch
notRun == <<files, features, now, last, ops, factFiles, held, flast, input, output, loop>>

\* what the loop of runs does not touch
notLoop == <<files, features, now, last, ops, factFiles, held, flast, input, output, run>>

\* the fact files and the caller's fact, not in use
FactsIdle == factFiles = <<>> /\ held = <<>> /\ flast = <<>>

\* no report function in use
ReportsIdle == input = <<>> /\ output = <<>>

\* no run of the project checks
RunIdle == run = <<>>

\* no loop of runs in use
LoopIdle == loop = <<>>

----------------------------------------------------------------------------
(* Bounds *)

MaxFeatures == 2      \* add_feature is not called on an index of this size
MaxOps == 4           \* constructions, clock steps and mutating calls explored
MaxTime == 1          \* the clock, in seconds, stops here

----------------------------------------------------------------------------
(* Option<T>: None, or Some(x) *)

None == <<>>
Some(x) == <<x>>
IsSome(o) == o # <<>>
Unwrap(o) == o[1]

unwrap_or(o, d) == IF IsSome(o) THEN Unwrap(o) ELSE d

(* Result<T>: Ok(value) or Err(message) *)
Ok(v) == [ok |-> TRUE, val |-> v, err |-> ""]
Err(m) == [ok |-> FALSE, val |-> <<>>, err |-> m]

----------------------------------------------------------------------------
(* Enums *)

PriorityValues == {"Critical", "High", "Medium", "Low"}
FeatureStatusValues == {"Proposed", "InProgress", "Implemented", "Blocked", "Deprecated"}

----------------------------------------------------------------------------
(* Text helpers *)

FeaturePrefix == "# Feature: "

RECURSIVE Flatten(_)
Flatten(ss) == IF ss = <<>> THEN <<>> ELSE Head(ss) \o Flatten(Tail(ss))

\* [String]::join(sep) over a list of one-chunk strings
RECURSIVE Join(_, _)
Join(xs, sep) ==
    IF xs = <<>> THEN <<>>
    ELSE IF Len(xs) = 1 THEN <<xs[1]>>
    ELSE <<xs[1], sep>> \o Join(Tail(xs), sep)

\* str::lines(): split at "\n"; a final empty line is not produced
RECURSIVE SplitLines(_, _)
SplitLines(text, cur) ==
    IF text = <<>> THEN (IF cur = <<>> THEN <<>> ELSE <<cur>>)
    ELSE IF Head(text) = "\n" THEN <<cur>> \o SplitLines(Tail(text), <<>>)
    ELSE SplitLines(Tail(text), Append(cur, Head(text)))

lines(text) == SplitLines(text, <<>>)

starts_with(line, prefix) == Len(line) > 0 /\ line[1] = prefix

\* str::replace(pat, ""): removes every occurrence of pat
replace_all(line, pat) == SelectSeq(line, LAMBDA c : c # pat)

\* the chunk lower-cased, whitespace replaced by "_", and only ASCII
\* alphanumerics and "_" kept
SlugChunk(c) ==
    CASE c = "a" -> <<"a">>
      [] c = "A" -> <<"a">>
      [] c = "b" -> <<"b">>
      [] c = " " -> <<"_">>
      [] c = "\n" -> <<"_">>
      [] c = "_" -> <<"_">>
      [] c = "-" -> <<>>
      [] c = FeaturePrefix -> <<"_", "f", "e", "a", "t", "u", "r", "e", "_">>

slug(name) == Flatten([i \in 1..Len(name) |-> SlugChunk(name[i])])

\* Utc::now().format("%Y%m%d_%H%M%S"): the clock at second resolution
format_timestamp(t) == ToString(t)

\* DateTime::to_rfc3339
to_rfc3339(t) == ToString(t)

generate_feature_id(name, t) == <<format_timestamp(t), "__">> \o slug(name)

----------------------------------------------------------------------------
(* The features directory *)

FileName(stem, ext) == [stem |-> stem, ext |-> ext]
FeatureFile(id) == FileName(id, "md")

save_feature_content(f) ==
    <<FeaturePrefix>> \o f.name \o
    <<"\n", "\n", "## Details", "\n", "- **ID**: ">> \o f.id \o
    <<"\n", "- **Status**: ", f.status,
      "\n", "- **Priority**: ", f.priority,
      "\n", "- **Assigned To**: ", unwrap_or(f.assigned_to, "Unassigned"),
      "\n", "- **Created At**: ", to_rfc3339(f.created_at),
      "\n", "- **Updated At**: ", to_rfc3339(f.updated_at),
      "\n", "\n", "## Description",
      "\n", unwrap_or(f.description, "No description"),
      "\n", "\n", "## Acceptance Criteria", "\n">> \o
    Join(f.acceptance_criteria, "\n- ") \o
    <<"\n", "\n", "## Related Features", "\n">> \o
    Join(f.related_features, ", ") \o
    <<"\n", "\n", "## Tags", "\n">> \o
    Join(f.tags, ", ")

\* fs::write(features_path/<id>.md, markdown): creates or overwrites
save_feature(fs, f) ==
    [n \in DOMAIN fs \cup {FeatureFile(f.id)} |->
        IF n = FeatureFile(f.id) THEN save_feature_content(f) ELSE fs[n]]

\* name recovered from a file: the first line starting with the prefix,
\* with every occurrence of the prefix removed; the id when there is none
load_name(content, id) ==
    LET ls == lines(content)
        hits == {i \in 1..Len(ls) : starts_with(ls[i], FeaturePrefix)}
    IN  IF hits = {} THEN id
        ELSE LET first == CHOOSE i \in hits : \A j \in hits : i <= j
             IN  replace_all(ls[first], FeaturePrefix)

load_feature(id, content, t) ==
    [id |-> id,
     name |-> load_name(content, id),
     description |-> None,
     status |-> "Proposed",
     tags |-> <<>>,
     priority |-> "Medium",
     assigned_to |-> None,
     complexity |-> None,
     created_at |-> t,
     updated_at |-> t,
     related_features |-> <<>>,
     acceptance_criteria |-> <<>>]

load_features(fs, t) ==
    LET md == {n \in DOMAIN fs : n.ext = "md"}
    IN  [id \in {n.stem : n \in md} |-> load_feature(id, fs[FeatureFile(id)], t)]

----------------------------------------------------------------------------
(* Inputs *)

AddRequest(name, description, tags, priority, assigned_to) ==
    [name |-> name, description |-> description, tags |-> tags,
     priority |-> priority, assigned_to |-> assigned_to]

\* arguments of add_feature: "a" and "A-" have the same slug; one name
\* contains the prefix literal
AddRequests ==
    {AddRequest(<<"a">>, None, None, None, None),
     AddRequest(<<"A", "-">>, Some("d"), Some(<<"t", "u">>), Some("High"), Some("dev")),
     AddRequest(<<FeaturePrefix, "a">>, None, Some(<<>>), Some("Low"), None)}

NoUpdate ==
    [description |-> None, status |-> None, tags |-> None, priority |-> None,
     assigned_to |-> None, complexity |-> None, related_features |-> None,
     acceptance_criteria |-> None]

\* FeatureUpdateRequest values
UpdateRequests ==
    {[NoUpdate EXCEPT !.status = Some("InProgress")],
     [NoUpdate EXCEPT !.description = Some("e"), !.tags = Some(<<"u">>),
                      !.priority = Some("Critical"), !.assigned_to = Some("ops")],
     [NoUpdate EXCEPT !.complexity = Some(3), !.related_features = Some(<<"n">>),
                      !.acceptance_criteria = Some(<<"x", "y">>)]}

\* directories a manager may be constructed over
InitDirs ==
    {<<>>,
     [n \in {FileName(<<"n">>, "md"), FileName(<<"m">>, "md"), FileName(<<"r">>, "txt")} |->
         IF n = FileName(<<"n">>, "md")
         THEN <<"x", "\n", FeaturePrefix, "b", "\n", FeaturePrefix, "a">>
         ELSE IF n = FileName(<<"m">>, "md") THEN <<"x">>
         ELSE <<FeaturePrefix, "r">>]}

\* one more construction, clock step or mutating call
Step == ops < MaxOps /\ ops' = ops + 1

NoCall == [op |-> "new", id |-> <<>>, req |-> <<>>, result |-> Ok(<<>>)]

\* no feature manager in use
StoreIdle == files = <<>> /\ features = <<>> /\ last = NoCall

----------------------------------------------------------------------------
(* Operations *)

Init ==
    /\ files \in InitDirs
    /\ now = 0
    /\ features = load_features(files, now)
    /\ last = NoCall
    /\ ops = 0
    /\ FactsIdle
    /\ ReportsIdle
    /\ RunIdle
    /\ LoopIdle

\* FeatureManager::new over the directory as it is now
NewManager ==
    /\ Step
    /\ features' = load_features(files, now)
    /\ last' = NoCall
    /\ UNCHANGED <<files, now, notStore>>

Tick ==
    /\ Step
    /\ now < MaxTime
    /\ now' = now + 1
    /\ last' = [op |-> "tick", id |-> <<>>, req |-> <<>>, result |-> Ok(<<>>)]
    /\ UNCHANGED <<files, features, notStore>>

\* add_feature ignoring the supplied priority
new_feature_medium(id, name, description, tags, priority, assigned_to, t) ==
    [id |-> id,
     name |-> name,
     description |-> description,
     status |-> "Proposed",
     tags |-> unwrap_or(tags, <<>>),
     priority |-> "Medium",
     assigned_to |-> assigned_to,
     complexity |-> None,
     created_at |-> t,
     updated_at |-> t,
     related_features |-> <<>>,
     acceptance_criteria |-> <<>>]

\* the record add_feature constructs
new_feature(id, name, description, tags, priority, assigned_to, t) ==
    [id |-> id,
     name |-> name,
     description |-> description,
     status |-> "Proposed",
     tags |-> unwrap_or(tags, <<>>),
     priority |-> unwrap_or(priority, "Medium"),
     assigned_to |-> assigned_to,
     complexity |-> None,
     created_at |-> t,
     updated_at |-> t,
     related_features |-> <<>>,
     acceptance_criteria |-> <<>>]

\* HashMap::insert
insert(map, id, feature) ==
    [i \in DOMAIN map \cup {id} |-> IF i = id THEN feature ELSE map[i]]

\* a removal that leaves the entry in the map
remove_keep(map, id) == map

\* HashMap::remove
remove(map, id) == [i \in DOMAIN map \ {id} |-> map[i]]

\* an add_feature without the duplicate check
already_exists_never(map, id) == FALSE

\* self.features.contains_key(&id)
already_exists(map, id) == id \in DOMAIN map

\* the clock reads of generate_feature_id and of add_feature fall in the
\* same second
AddFeature(name, description, tags, priority, assigned_to) ==
    LET id == generate_feature_id(name, now)
        req == AddRequest(name, description, tags, priority, assigned_to)
        feature == new_feature(id, name, description, tags, priority, assigned_to, now)
    IN  IF already_exists(features, id)
        THEN /\ Step
             /\ last' = [op |-> "add", id |-> id, req |-> req,
                         result |-> Err("Feature with this name already exists")]
             /\ UNCHANGED <<files, features, now, notStore>>
        ELSE /\ Step
             /\ Cardinality(DOMAIN features) < MaxFeatures
             /\ files' = save_feature(files, feature)
             /\ features' = insert(features, id, feature)
             /\ last' = [op |-> "add", id |-> id, req |-> req, result |-> Ok(id)]
             /\ UNCHANGED <<now, notStore>>

\* update_feature assigning the tags unconditionally
apply_updates_clobber(f, u) ==
    [f EXCEPT
        !.description = IF IsSome(u.description) THEN Some(Unwrap(u.description)) ELSE @,
        !.status = IF IsSome(u.status) THEN Unwrap(u.status) ELSE @,
        !.tags = unwrap_or(u.tags, <<>>),
        !.priority = IF IsSome(u.priority) THEN Unwrap(u.priority) ELSE @,
        !.assigned_to = IF IsSome(u.assigned_to) THEN Some(Unwrap(u.assigned_to)) ELSE @]

\* the in-place field updates of update_feature
apply_updates(f, u) ==
    [f EXCEPT
        !.description = IF IsSome(u.description) THEN Some(Unwrap(u.description)) ELSE @,
        !.status = IF IsSome(u.status) THEN Unwrap(u.status) ELSE @,
        !.tags = IF IsSome(u.tags) THEN Unwrap(u.tags) ELSE @,
        !.priority = IF IsSome(u.priority) THEN Unwrap(u.priority) ELSE @,
        !.assigned_to = IF IsSome(u.assigned_to) THEN Some(Unwrap(u.assigned_to)) ELSE @]

\* a lookup that creates a default entry for a missing id
get_mut_or_default(map, id) ==
    IF id \in DOMAIN map THEN Some(map[id]) ELSE Some(load_feature(id, <<>>, 0))

\* self.features.get_mut(id)
get_mut(map, id) == IF id \in DOMAIN map THEN Some(map[id]) ELSE None

UpdateFeature(id, updates) ==
    LET found == get_mut(features, id)
    IN  IF ~IsSome(found)
        THEN /\ Step
             /\ last' = [op |-> "update", id |-> id, req |-> updates,
                         result |-> Err("Feature not found")]
             /\ UNCHANGED <<files, features, now, notStore>>
        ELSE LET feature == apply_updates(Unwrap(found), updates)
             IN  /\ Step
                 /\ features' = insert(features, id, feature)
                 /\ files' = save_feature(files, feature)
                 /\ last' = [op |-> "update", id |-> id, req |-> updates,
                             result |-> Ok(<<>>)]
                 /\ UNCHANGED <<now, notStore>>

\* delete_feature without the existence check
exists_always(fs, n) == TRUE

\* feature_path.exists()
exists(fs, n) == n \in DOMAIN fs

\* fs::remove_file: an error when there is no such file
remove_file(fs, n) ==
    IF n \in DOMAIN fs
    THEN [ok |-> TRUE, fs |-> [m \in DOMAIN fs \ {n} |-> fs[m]]]
    ELSE [ok |-> FALSE, fs |-> fs]

\* the call record notes what the call found: whether the id was indexed,
\* whether its file existed, and whether the call repeats the delete that has
\* just removed this feature
DeleteFeature(id) ==
    LET removed == IF exists(files, FeatureFile(id))
                   THEN remove_file(files, FeatureFile(id))
                   ELSE [ok |-> TRUE, fs |-> files]
        found == [indexed |-> id \in DOMAIN features,
                  file |-> FeatureFile(id) \in DOMAIN files,
                  again |-> last.op = "delete" /\ last.id = id /\ last.req.indexed]
    IN  IF removed.ok
        THEN /\ Step
             /\ files' = removed.fs
             /\ features' = remove(features, id)
             /\ last' = [op |-> "delete", id |-> id, req |-> found, result |-> Ok(<<>>)]
             /\ UNCHANGED <<now, notStore>>
        ELSE /\ Step
             /\ last' = [op |-> "delete", id |-> id, req |-> found,
                         result |-> Err("No such file or directory")]
             /\ UNCHANGED <<files, features, now, notStore>>

\* a lookup that reads the feature's file as it is now
get_feature_from_file(map, id) ==
    IF FeatureFile(id) \in DOMAIN files
    THEN Some(load_feature(id, files[FeatureFile(id)], now))
    ELSE None

\* self.features.get(id)
get_feature(map, id) == IF id \in DOMAIN map THEN Some(map[id]) ELSE None

GetFeature(id) ==
    /\ last' = [op |-> "get", id |-> id, req |-> <<>>, result |-> get_feature(features, id)]
    /\ UNCHANGED <<files, features, now, ops, notStore>>

\* a filter that keeps a feature satisfying any supplied predicate
matches_any(feature, tag, status, priority) ==
    \/ (~IsSome(tag) /\ ~IsSome(status) /\ ~IsSome(priority))
    \/ (IsSome(tag) /\ \E i \in 1..Len(feature.tags) : feature.tags[i] = Unwrap(tag))
    \/ (IsSome(status) /\ feature.status = Unwrap(status))
    \/ (IsSome(priority) /\ feature.priority = Unwrap(priority))

\* the filter closure of list_features
matches(feature, tag, status, priority) ==
    /\ (~IsSome(tag) \/ \E i \in 1..Len(feature.tags) : feature.tags[i] = Unwrap(tag))
    /\ (~IsSome(status) \/ feature.status = Unwrap(status))
    /\ (~IsSome(priority) \/ feature.priority = Unwrap(priority))

\* HashMap::values(): every value once, in an order the map chooses
ValuesOrders(map) ==
    LET n == Cardinality(DOMAIN map)
    IN  {[i \in 1..n |-> map[o[i]]] :
            o \in {p \in [1..n -> DOMAIN map] : \A i, j \in 1..n : p[i] = p[j] => i = j}}

list_features(values, tag, status, priority) ==
    SelectSeq(values, LAMBDA f : matches(f, tag, status, priority))

ListFilter(tag, status, priority) == [tag |-> tag, status |-> status, priority |-> priority]

ListFilters ==
    {ListFilter(None, None, None),
     ListFilter(Some("u"), None, None),
     ListFilter(Some("U"), None, None),
     ListFilter(Some("u"), Some("Proposed"), Some("High"))}

ListFeatures(tag, status, priority) ==
    /\ \E values \in ValuesOrders(features) :
          last' = [op |-> "list", id |-> <<>>, req |-> ListFilter(tag, status, priority),
                   result |-> list_features(values, tag, status, priority)]
    /\ UNCHANGED <<files, features, now, ops, notStore>>

\* an identifier no add_feature of the model generates and no file carries
GhostId == <<"0", "__", "g">>

\* the identifiers a caller passes: the indexed ones, the one of the last call
\* and one that was never issued
IdInputs ==
    DOMAIN features \cup {GhostId} \cup (IF last.id # <<>> THEN {last.id} ELSE {})

Next ==
    \/ NewManager
    \/ Tick
    \/ \E r \in AddRequests :
          AddFeature(r.name, r.description, r.tags, r.priority, r.assigned_to)
    \/ \E id \in IdInputs, u \in UpdateRequests : UpdateFeature(id, u)
    \/ \E id \in IdInputs : DeleteFeature(id)
    \/ \E id \in IdInputs : GetFeature(id)
    \/ \E f \in ListFilters : ListFeatures(f.tag, f.status, f.priority)

Spec == Init /\ [][Next]_vars

----------------------------------------------------------------------------
(* Properties of the feature store *)

UpdateFields ==
    {"description", "status", "tags", "priority", "assigned_to", "complexity",
     "related_features", "acceptance_criteria"}

\* fields held as Option in the record: a requested value v is stored as Some(v)
OptionFields == {"description", "assigned_to", "complexity"}

Stored(field, v) == IF field \in OptionFields THEN Some(v) ELSE v

MdStems(fs) == {n.stem : n \in {m \in DOMAIN fs : m.ext = "md"}}

\* C1: get_feature right after a successful add_feature returns a feature
\* with the input name, status Proposed, the supplied tags (none when
\* omitted) and the supplied priority (Medium when omitted).
C1_GetAfterAdd ==
    (last.op = "add" /\ last.result.ok) =>
        LET got == get_feature(features, last.result.val)
        IN  /\ IsSome(got)
            /\ Unwrap(got).name = last.req.name
            /\ Unwrap(got).status = "Proposed"
            /\ Unwrap(got).tags =
                   (IF IsSome(last.req.tags) THEN Unwrap(last.req.tags) ELSE <<>>)
            /\ Unwrap(got).priority =
                   (IF IsSome(last.req.priority) THEN Unwrap(last.req.priority) ELSE "Medium")

\* an add with tags and priority omitted next to one with both supplied
C1_Witness ==
    /\ last.op = "add" /\ last.result.ok
    /\ ~IsSome(last.req.tags) /\ ~IsSome(last.req.priority)
    /\ \E id \in DOMAIN features : features[id].priority = "High" /\ features[id].tags # <<>>

\* C2: update_feature leaves every field whose request value is absent, and
\* the name, id and created_at, as they were; no other record changes.
C2_UpdateFrame ==
    [][(last'.op = "update" /\ last'.id \in DOMAIN features) =>
          /\ DOMAIN features' = DOMAIN features
          /\ \A i \in DOMAIN features : i # last'.id => features'[i] = features[i]
          /\ features'[last'.id].id = features[last'.id].id
          /\ features'[last'.id].name = features[last'.id].name
          /\ features'[last'.id].created_at = features[last'.id].created_at
          /\ \A k \in UpdateFields :
                ~IsSome(last'.req[k]) => features'[last'.id][k] = features[last'.id][k]]_vars

\* a status-only update of a feature that has tags, a description, an
\* assignee and a non-default priority, with another feature indexed
C2_Witness ==
    /\ last.op = "update" /\ last.result.ok
    /\ IsSome(last.req.status) /\ ~IsSome(last.req.tags)
    /\ features[last.id].status = "InProgress"
    /\ features[last.id].tags # <<>>
    /\ features[last.id].priority = "High"
    /\ IsSome(features[last.id].description)
    /\ IsSome(features[last.id].assigned_to)
    /\ Cardinality(DOMAIN features) = 2

\* C3: after a successful update_feature the feature's updated_at is the time
\* of the update, and not earlier than created_at.
C3_UpdatedAtRefreshed ==
    (last.op = "update" /\ last.result.ok) =>
        /\ features[last.id].updated_at = now
        /\ features[last.id].updated_at >= features[last.id].created_at

\* C4: every field the update request carries a value for has that value in
\* the stored feature after a successful update_feature.
C4_PresentFieldsStored ==
    (last.op = "update" /\ last.result.ok) =>
        \A k \in UpdateFields :
            IsSome(last.req[k]) => features[last.id][k] = Stored(k, Unwrap(last.req[k]))

\* C5: delete_feature always succeeds, and with an id that is neither indexed
\* nor backed by a file it changes neither the index nor the files; so a
\* feature can be deleted twice in a row.
C5_DeleteMissingIsNoOp ==
    [][last'.op = "delete" =>
          /\ last'.result.ok
          /\ (last'.id \notin DOMAIN features /\ FeatureFile(last'.id) \notin DOMAIN files) =>
                (features' = features /\ files' = files)]_vars

\* the second of two deletes in a row of a feature that existed, with
\* another feature still indexed
C5_Witness ==
    /\ last.op = "delete" /\ last.result.ok
    /\ last.req.again /\ ~last.req.indexed /\ ~last.req.file
    /\ DOMAIN features # {}

\* C6: list_features returns exactly the indexed features that satisfy every
\* supplied filter, each once; a filter that is not supplied excludes nothing.
C6_ListExactlyMatching ==
    last.op = "list" =>
        LET res == last.result
            wanted(f) ==
                /\ IsSome(last.req.tag) =>
                      Unwrap(last.req.tag) \in {f.tags[i] : i \in 1..Len(f.tags)}
                /\ IsSome(last.req.status) => f.status = Unwrap(last.req.status)
                /\ IsSome(last.req.priority) => f.priority = Unwrap(last.req.priority)
        IN  /\ \A i \in 1..Len(res) :
                  res[i].id \in DOMAIN features /\ features[res[i].id] = res[i] /\ wanted(res[i])
            /\ \A id \in DOMAIN features :
                  wanted(features[id]) =>
                      Cardinality({i \in 1..Len(res) : res[i].id = id}) = 1
            /\ (last.req = ListFilter(None, None, None)) =>
                  Len(res) = Cardinality(DOMAIN features)

\* a tag-and-status-and-priority filter that keeps one of two features that
\* both carry the tag
C6_Witness ==
    /\ last.op = "list"
    /\ IsSome(last.req.tag) /\ IsSome(last.req.status) /\ IsSome(last.req.priority)
    /\ Len(last.result) = 1
    /\ \A id \in DOMAIN features :
          Unwrap(last.req.tag) \in {features[id].tags[i] : i \in 1..Len(features[id].tags)}
    /\ Cardinality(DOMAIN features) = 2

\* C7: add_feature is rejected exactly when the generated identifier
\* (timestamp plus slug of the name) is already indexed, and a rejected call
\* changes neither the index nor the files.
C7_DuplicateRejected ==
    [][last'.op = "add" =>
          /\ last'.id = generate_feature_id(last'.req.name, now)
          /\ last'.result.ok <=> last'.id \notin DOMAIN features
          /\ ~last'.result.ok =>
                /\ last'.result.err = "Feature with this name already exists"
                /\ features' = features
                /\ files' = files]_vars

\* a rejected add of a name that differs from the indexed feature's name
C7_Witness ==
    /\ last.op = "add" /\ ~last.result.ok
    /\ last.id \in DOMAIN features
    /\ features[last.id].name # last.req.name

\* C8: the identifiers in the index are exactly the stems of the .md files in
\* the features directory.
C8_IndexMatchesFiles == DOMAIN features = MdStems(files)

\* after a delete that removed a feature, with a feature left and a file of
\* another extension in the directory
C8_Witness ==
    /\ last.op = "delete" /\ last.req.indexed /\ last.req.file
    /\ DOMAIN features # {}
    /\ \E n \in DOMAIN files : n.ext # "md"
    /\ ops = MaxOps

\* the text after the prefix of the first line of the content that starts
\* with the prefix; the id when no line does
NameAfterPrefix(content, id) ==
    LET ls == lines(content)
        hits == {i \in 1..Len(ls) : Len(ls[i]) > 0 /\ ls[i][1] = FeaturePrefix}
    IN  IF hits = {} THEN id
        ELSE LET i == CHOOSE i \in hits : \A j \in hits : i <= j
             IN  SubSeq(ls[i], 2, Len(ls[i]))

\* C9: a manager constructed over a directory holds, for each .md file, a
\* feature with the file stem as id, the text after the prefix of the first
\* prefix line as name (the id when there is none) and defaults elsewhere.
C9_LoadRecoversIdAndName ==
    last.op = "new" =>
        /\ DOMAIN features = MdStems(files)
        /\ \A id \in DOMAIN features :
              /\ features[id].id = id
              /\ features[id].name = NameAfterPrefix(files[FeatureFile(id)], id)
              /\ features[id].status = "Proposed"
              /\ features[id].priority = "Medium"
              /\ features[id].description = None
              /\ features[id].assigned_to = None
              /\ features[id].tags = <<>>
              /\ features[id].complexity = None
              /\ features[id].related_features = <<>>
              /\ features[id].acceptance_criteria = <<>>

\* C10: update_feature for an id that is not indexed returns 'Feature not
\* found', writes no file and leaves the index unchanged; get_feature for
\* such an id returns None.
C10_NotFound ==
    [][/\ (last'.op = "update" /\ last'.id \notin DOMAIN features) =>
             /\ ~last'.result.ok
             /\ last'.result.err = "Feature not found"
             /\ files' = files
             /\ features' = features
       /\ (last'.op = "get" /\ last'.id \notin DOMAIN features) =>
             last'.result = None]_vars

\* a failed update of the feature that has just been deleted, other
\* features being indexed
C10_Witness ==
    /\ last.op = "update" /\ ~last.result.ok
    /\ last.id # GhostId
    /\ DOMAIN features # {}

\* the text a feature file shows for a field: the rest of the line that
\* starts with the field's label, or the line under the field's heading
FieldLabel ==
    [status |-> "- **Status**: ", priority |-> "- **Priority**: ",
     assigned_to |-> "- **Assigned To**: ",
     description |-> "## Description", tags |-> "## Tags"]

FileField(content, k) ==
    LET ls == lines(content)
        hits == {i \in 1..Len(ls) : starts_with(ls[i], FieldLabel[k])}
    IN  IF hits = {} THEN None
        ELSE LET i == CHOOSE h \in hits : \A j \in hits : h <= j
             IN  IF k \in {"description", "tags"}
                 THEN Some(IF i < Len(ls) THEN ls[i + 1] ELSE <<>>)
                 ELSE Some(Tail(ls[i]))

\* C20: a successful update_feature leaves, in the feature's file, every
\* field the file showed and the request does not supply as it was, also
\* when the manager was constructed over files written earlier.
C20_FileFrame ==
    [][(last'.op = "update" /\ last'.result.ok) =>
          \A k \in DOMAIN FieldLabel :
              (/\ ~IsSome(last'.req[k])
               /\ IsSome(FileField(files[FeatureFile(last'.id)], k))) =>
                  FileField(files'[FeatureFile(last'.id)], k) =
                      FileField(files[FeatureFile(last'.id)], k)]_vars

----------------------------------------------------------------------------
(* Facts (src/src/facts.rs): one JSON file per fact under the directory of *)
(* its type.  Fact texts are chunk sequences over letters, a space, the    *)
(* quote, the backslash and the newline; "SIGMA", "sigma" and "sigma_f"   *)
(* stand for the Greek capital, small and final small sigma.               *)

MaxFactOps == 5       \* constructions, updates, saves and clock steps explored
MaxFactTime == 2      \* the clock stops here while facts are in use
MaxFacts == 2         \* Fact::new is called at most this many times

FactTypes == <<"Prompt", "History", "Template">>

\* impl Display for FactType
type_dir(ft) ==
    CASE ft = "Prompt" -> "prompts" [] ft = "History" -> "history"
      [] ft = "Template" -> "templates"

FactFile(ft, id) == [dir |-> type_dir(ft), stem |-> id, ext |-> "json"]

\* the ids Uuid::new_v4 returns, in the order it returns them
Uuids == <<"u1", "u2">>

\* JSON string escaping as serde_json writes it
EscapeChunk(c) ==
    CASE c = "\"" -> <<"\\", "\"">>
      [] c = "\\" -> <<"\\", "\\">>
      [] c = "\n" -> <<"\\", "n">>
      [] OTHER -> <<c>>

\* an escape that leaves backslashes as they are
json_escape_quotes_only(text) ==
    Flatten([i \in 1..Len(text) |->
                IF text[i] = "\\" THEN <<"\\">> ELSE EscapeChunk(text[i])])

json_escape(text) == Flatten([i \in 1..Len(text) |-> EscapeChunk(text[i])])

\* JSON string unescaping as serde_json reads it
RECURSIVE json_unescape(_)
json_unescape(text) ==
    IF text = <<>> THEN <<>>
    ELSE IF Head(text) = "\\" /\ Len(text) >= 2
         THEN <<IF text[2] = "n" THEN "\n" ELSE text[2]>> \o
              json_unescape(SubSeq(text, 3, Len(text)))
         ELSE <<Head(text)>> \o json_unescape(Tail(text))

json_string(text) == <<"\"">> \o json_escape(text) \o <<"\"">>
parse_string(v) == json_unescape(SubSeq(v, 2, Len(v) - 1))
json_option(o) == IF IsSome(o) THEN json_string(Unwrap(o)) ELSE <<"null">>
parse_option(v) == IF v = <<"null">> THEN None ELSE Some(parse_string(v))

\* DateTime<Utc> read back from its serialised form
parse_rfc3339(text) == CHOOSE t \in 0..MaxFactTime : to_rfc3339(t) = text

\* serde_json::to_string_pretty(&Fact): the object's members, each value in
\* its serialised form
to_string_pretty(f) ==
    [id |-> json_string(<<f.id>>),
     fact_type |-> json_string(<<f.fact_type>>),
     content |-> json_string(f.content),
     metadata |->
        [tags |-> [i \in 1..Len(f.metadata.tags) |-> json_string(f.metadata.tags[i])],
         description |-> json_option(f.metadata.description),
         version |-> json_option(f.metadata.version),
         references |-> [i \in 1..Len(f.metadata.references) |->
                            json_string(f.metadata.references[i])]],
     created_at |-> json_string(<<to_rfc3339(f.created_at)>>),
     updated_at |-> json_string(<<to_rfc3339(f.updated_at)>>)]

\* a file that is not a JSON object
NotJson == [raw |-> <<"x">>]

\* serde_json::from_str::<Fact>
from_str(text) ==
    IF "id" \notin DOMAIN text THEN Err("expected value")
    ELSE Ok([id |-> parse_string(text.id)[1],
             fact_type |-> parse_string(text.fact_type)[1],
             content |-> parse_string(text.content),
             metadata |->
                [tags |-> [i \in 1..Len(text.metadata.tags) |->
                              parse_string(text.metadata.tags[i])],
                 description |-> parse_option(text.metadata.description),
                 version |-> parse_option(text.metadata.version),
                 references |-> [i \in 1..Len(text.metadata.references) |->
                                    parse_string(text.metadata.references[i])]],
             created_at |-> parse_rfc3339(parse_string(text.created_at)[1]),
             updated_at |-> parse_rfc3339(parse_string(text.updated_at)[1])])

\* char::is_lowercase / is_uppercase: the cased letters of the alphabet
Cased == {"a", "A", "b", "d", "D", "n", "r", "s", "t", "T", "x", "SIGMA", "sigma", "sigma_f"}

\* str::to_lowercase: letter by letter, except that a capital sigma ending
\* a word (after a cased letter, not before one) becomes the final sigma
to_lowercase(text) ==
    [i \in 1..Len(text) |->
        CASE text[i] = "SIGMA" ->
                IF /\ i > 1 /\ text[i - 1] \in Cased
                   /\ (i = Len(text) \/ text[i + 1] \notin Cased)
                THEN "sigma_f" ELSE "sigma"
          [] text[i] = "A" -> "a"
          [] text[i] = "D" -> "d"
          [] text[i] = "T" -> "t"
          [] OTHER -> text[i]]

\* str::contains
contains(text, pat) ==
    \E i \in 1..(Len(text) + 1) :
        /\ i + Len(pat) - 1 <= Len(text)
        /\ SubSeq(text, i, i + Len(pat) - 1) = pat

\* Fact::search_facts(&self, query)
fact_matches(f, query) ==
    \/ contains(to_lowercase(f.content), to_lowercase(query))
    \/ /\ IsSome(f.metadata.description)
       /\ contains(to_lowercase(Unwrap(f.metadata.description)), to_lowercase(query))
    \/ \E i \in 1..Len(f.metadata.tags) :
          contains(to_lowercase(f.metadata.tags[i]), to_lowercase(query))

\* Vec::sort_by left out
sort_by_nothing(fs) == fs

\* facts.sort_by(|a, b| b.created_at.cmp(&a.created_at)): stable, newest first
RECURSIVE sort_by_created_desc(_)
sort_by_created_desc(fs) ==
    IF fs = <<>> THEN <<>>
    ELSE LET done == sort_by_created_desc(SubSeq(fs, 1, Len(fs) - 1))
             x == fs[Len(fs)]
             k == Cardinality({i \in 1..Len(done) : done[i].created_at >= x.created_at})
         IN  SubSeq(done, 1, k) \o <<x>> \o SubSeq(done, k + 1, Len(done))

\* list_json_files: the entries of the type's directory with extension json
list_json_files(fs, ft) == {n \in DOMAIN fs : n.dir = type_dir(ft) /\ n.ext = "json"}

\* the orders in which fs::read_dir may yield those entries
DirOrders(fs, ft) ==
    LET es == list_json_files(fs, ft)
    IN  {o \in [1..Cardinality(es) -> es] : \A i, j \in DOMAIN o : o[i] = o[j] => i = j}

\* Fact::list over the entries in the order read
fact_list(fs, order) ==
    IF \E i \in DOMAIN order : ~from_str(fs[order[i]]).ok
    THEN Err("expected value")
    ELSE Ok(sort_by_created_desc([i \in DOMAIN order |-> from_str(fs[order[i]]).val]))

\* the free function search_facts; orders gives each type's read order
RECURSIVE search_collect(_, _, _, _)
search_collect(fs, query, types, orders) ==
    IF types = <<>> THEN Ok(<<>>)
    ELSE LET facts == fact_list(fs, orders[Head(types)])
             rest == search_collect(fs, query, Tail(types), orders)
         IN  IF ~facts.ok THEN facts
             ELSE IF ~rest.ok THEN rest
             ELSE Ok(SelectSeq(facts.val, LAMBDA f : fact_matches(f, query)) \o rest.val)

search_facts(fs, query, fact_type, orders) ==
    LET found == search_collect(fs, query,
                     IF IsSome(fact_type) THEN <<Unwrap(fact_type)>> ELSE FactTypes,
                     orders)
    IN  IF found.ok THEN Ok(sort_by_created_desc(found.val)) ELSE found

Metadata(tags, description, version, references) ==
    [tags |-> tags, description |-> description, version |-> version,
     references |-> references]

\* arguments of Fact::new
NewFacts ==
    {[fact_type |-> "Prompt", content |-> <<"A", "SIGMA">>,
      metadata |-> Metadata(<<>>, None, None, <<>>)],
     [fact_type |-> "Template", content |-> <<"b">>,
      metadata |-> Metadata(<<<<"T", "a">>, <<"x">>>>, Some(<<"D", "\\">>),
                            Some(<<"1">>), <<<<"r", "\"">>, <<"s">>>>)]}

\* arguments of Fact::update
FactUpdates ==
    {[content |-> <<"a", "\"", "\\", "n", "\n">>, metadata |-> None],
     [content |-> <<"b", " ">>,
      metadata |-> Some(Metadata(<<<<"d">>>>, None, None, <<<<"s">>, <<"r">>>>))]}

Queries == {<<"SIGMA">>, <<"a">>, <<"d">>, <<"z">>}

\* the fact_type argument of search_facts
SearchTypes == {None, Some("Prompt"), Some("Template")}

\* project directories the fact operations may start from
FactDirs ==
    {<<>>,
     [n \in {[dir |-> "prompts", stem |-> "notes", ext |-> "txt"],
              [dir |-> "history", stem |-> "broken", ext |-> "json"]} |-> NotJson]}

FactStep == ops < MaxFactOps /\ ops' = ops + 1

FactCall(op, arg, result) == [op |-> op, arg |-> arg, result |-> result]

FactsInit ==
    /\ factFiles \in FactDirs
    /\ held = None
    /\ flast = FactCall("none", <<>>, Ok(<<>>))
    /\ now = 0
    /\ ops = 0
    /\ StoreIdle
    /\ ReportsIdle
    /\ RunIdle
    /\ LoopIdle

FactTick ==
    /\ FactStep
    /\ now < MaxFactTime
    /\ now' = now + 1
    /\ UNCHANGED <<factFiles, held, flast, notFacts>>

\* an id a fact file or the held value already carries
UuidUsed(id) ==
    \/ \E n \in DOMAIN factFiles : n.ext = "json" /\ n.stem = id
    \/ IsSome(held) /\ Unwrap(held).id = id

\* Fact::new: the caller now holds the new value
FactNew(req) ==
    /\ FactStep
    /\ \E i \in 1..MaxFacts :
          /\ i <= Len(Uuids)
          /\ \A j \in 1..Len(Uuids) : j < i <=> UuidUsed(Uuids[j])
          /\ held' = Some([id |-> Uuids[i], fact_type |-> req.fact_type,
                           content |-> req.content, metadata |-> req.metadata,
                           created_at |-> now, updated_at |-> now])
    /\ flast' = FactCall("new", req, Ok(<<>>))
    /\ UNCHANGED <<factFiles, now, notFacts>>

\* Fact::update on the held value
FactUpdate(req) ==
    /\ FactStep
    /\ IsSome(held)
    /\ held' = Some([Unwrap(held) EXCEPT
                        !.content = req.content,
                        !.metadata = IF IsSome(req.metadata) THEN Unwrap(req.metadata) ELSE @,
                        !.updated_at = now])
    /\ flast' = FactCall("update", req, Ok(<<>>))
    /\ UNCHANGED <<factFiles, now, notFacts>>

\* Fact::save of the held value
FactSave ==
    /\ FactStep
    /\ IsSome(held)
    /\ LET f == Unwrap(held)
           path == FactFile(f.fact_type, f.id)
       IN  /\ factFiles' = [n \in DOMAIN factFiles \cup {path} |->
                               IF n = path THEN to_string_pretty(f) ELSE factFiles[n]]
           /\ flast' = FactCall("save",
                          [id |-> f.id, fact_type |-> f.fact_type,
                           existed |-> path \in DOMAIN factFiles], Ok(<<>>))
    /\ UNCHANGED <<held, now, notFacts>>

\* whether the call before this one saved the fact of that id and type,
\* and whether that save found its file there
JustSaved(id, ft) ==
    IF flast.op = "save" /\ flast.arg.id = id /\ flast.arg.fact_type = ft
    THEN (IF flast.arg.existed THEN "over" ELSE "created")
    ELSE "no"

\* Fact::load(fact_id, fact_type, project_path)
FactLoad(id, ft) ==
    /\ flast' = FactCall("load",
                    [id |-> id, fact_type |-> ft, saved |-> JustSaved(id, ft)],
                    IF FactFile(ft, id) \in DOMAIN factFiles
                    THEN from_str(factFiles[FactFile(ft, id)])
                    ELSE Err("No such file or directory"))
    /\ UNCHANGED <<factFiles, held, now, ops, notFacts>>

\* Fact::list(fact_type, project_path)
FactList(ft) ==
    /\ \E order \in DirOrders(factFiles, ft) :
          flast' = FactCall("list", [fact_type |-> ft], fact_list(factFiles, order))
    /\ UNCHANGED <<factFiles, held, now, ops, notFacts>>

\* search_facts(query, fact_type, project_path)
SearchFacts(query, fact_type) ==
    /\ \E po \in DirOrders(factFiles, "Prompt"),
          ho \in DirOrders(factFiles, "History"),
          to \in DirOrders(factFiles, "Template") :
          flast' = FactCall("search", [query |-> query, fact_type |-> fact_type],
                       search_facts(factFiles, query, fact_type,
                           [Prompt |-> po, History |-> ho, Template |-> to]))
    /\ UNCHANGED <<factFiles, held, now, ops, notFacts>>

FactsNext ==
    \/ FactTick
    \/ \E req \in NewFacts : FactNew(req)
    \/ \E req \in FactUpdates : FactUpdate(req)
    \/ FactSave
    \/ \E u \in 1..Len(Uuids), i \in 1..3 : FactLoad(Uuids[u], FactTypes[i])
    \/ \E i \in 1..3 : FactList(FactTypes[i])
    \/ \E query \in Queries, ft \in SearchTypes : SearchFacts(query, ft)

SpecFacts == FactsInit /\ [][FactsNext]_vars

----------------------------------------------------------------------------
(* Claims about facts *)

\* C11: a load right after a save of the fact of that id and type succeeds
\* and returns the id, content and metadata of the saved value, also when
\* the save overwrote an earlier file; the fact has one file.
C11_SaveLoadRoundTrip ==
    /\ (flast.op = "load" /\ flast.arg.saved # "no") =>
          /\ flast.result.ok
          /\ flast.result.val.id = Unwrap(held).id
          /\ flast.result.val.content = Unwrap(held).content
          /\ flast.result.val.metadata = Unwrap(held).metadata
    /\ flast.op = "save" =>
          Cardinality({n \in DOMAIN factFiles : n.stem = flast.arg.id}) = 1

\* a load after the second save of a fact whose content holds a quote, a
\* backslash and a newline and whose metadata has tags, a description with
\* a backslash and references
C11_Witness ==
    /\ flast.op = "load" /\ flast.arg.saved = "over" /\ flast.result.ok
    /\ flast.result.val.content = <<"a", "\"", "\\", "n", "\n">>
    /\ flast.result.val.metadata.description = Some(<<"D", "\\">>)
    /\ Len(flast.result.val.metadata.tags) = 2
    /\ Len(flast.result.val.metadata.references) = 2
    /\ flast.result.val.updated_at > flast.result.val.created_at

\* the facts stored under a type's directory
StoredFacts(ft) ==
    {from_str(factFiles[n]).val : n \in list_json_files(factFiles, ft)}

\* letters that differ only in case
CaseFold(c) ==
    CASE c = "A" -> "a" [] c = "D" -> "d" [] c = "T" -> "t"
      [] c \in {"SIGMA", "sigma_f"} -> "sigma"
      [] OTHER -> c

\* pat occurs in text, letter case aside
CaselessSubstring(text, pat) ==
    \E i \in 1..(Len(text) + 1) :
        /\ i + Len(pat) - 1 <= Len(text)
        /\ \A j \in 1..Len(pat) : CaseFold(text[i + j - 1]) = CaseFold(pat[j])

\* C12: a successful search_facts returns, once each, exactly the stored
\* facts of the requested type (of all three types when none is given) for
\* which the query is a case-insensitive substring of the content, of the
\* description when present, or of at least one tag.
C12_SearchExact ==
    (flast.op = "search" /\ flast.result.ok) =>
        LET types == IF IsSome(flast.arg.fact_type)
                     THEN {Unwrap(flast.arg.fact_type)}
                     ELSE {FactTypes[i] : i \in 1..3}
            q == flast.arg.query
            expected ==
                {f \in UNION {StoredFacts(ft) : ft \in types} :
                    \/ CaselessSubstring(f.content, q)
                    \/ /\ IsSome(f.metadata.description)
                       /\ CaselessSubstring(Unwrap(f.metadata.description), q)
                    \/ \E i \in 1..Len(f.metadata.tags) :
                          CaselessSubstring(f.metadata.tags[i], q)}
            found == flast.result.val
        IN  /\ {found[i] : i \in 1..Len(found)} = expected
            /\ Len(found) = Cardinality(expected)

\* C13: the results of Fact::list and of search_facts are ordered by
\* created_at, newest first, also when several types are merged.
C13_NewestFirst ==
    (flast.op \in {"list", "search"} /\ flast.result.ok) =>
        \A i \in 1..(Len(flast.result.val) - 1) :
            flast.result.val[i].created_at >= flast.result.val[i + 1].created_at

\* a search over all types that returns a Template fact before an older
\* Prompt fact, the Prompt directory being read first
C13_Witness ==
    /\ flast.op = "search" /\ flast.result.ok
    /\ ~IsSome(flast.arg.fact_type)
    /\ Len(flast.result.val) = 2
    /\ flast.result.val[1].fact_type = "Template"
    /\ flast.result.val[2].fact_type = "Prompt"
    /\ flast.result.val[1].created_at > flast.result.val[2].created_at

----------------------------------------------------------------------------
(* Validation (src/src/validation.rs): report functions over a project     *)
(* directory and its configuration.                                        *)

required_dirs == <<".fargin", ".fargin/prompts", ".fargin/history", ".fargin/templates">>

ValidationCheck(name, status, message) ==
    [name |-> name, status |-> status, message |-> message]

\* a check that looks at the project's root directory only
validate_root_directory_only(dirs) ==
    IF required_dirs[1] \notin dirs
    THEN Ok(ValidationCheck(<<"Directory Structure">>, "Error",
                Some(<<"Missing required directory: ", required_dirs[1]>>)))
    ELSE Ok(ValidationCheck(<<"Directory Structure">>, "Pass", None))

\* validate_directory_structure: dirs are the paths that exist
validate_directory_structure(dirs) ==
    LET absent == {i \in 1..Len(required_dirs) : required_dirs[i] \notin dirs}
    IN  IF absent # {}
        THEN LET first == CHOOSE i \in absent : \A j \in absent : i <= j
             IN  Ok(ValidationCheck(<<"Directory Structure">>, "Error",
                        Some(<<"Missing required directory: ", required_dirs[first]>>)))
        ELSE Ok(ValidationCheck(<<"Directory Structure">>, "Pass", None))

\* a check that treats an empty description as an error
validate_configuration_strict(config) ==
    IF config.name = <<>> \/ config.description = <<>>
    THEN Ok(ValidationCheck(<<"Configuration">>, "Error",
                Some(<<"Project ", "name", " cannot be empty">>)))
    ELSE Ok(ValidationCheck(<<"Configuration">>, "Pass", None))

validate_configuration(config) ==
    IF config.name = <<>>
    THEN Ok(ValidationCheck(<<"Configuration">>, "Error",
                Some(<<"Project ", "name", " cannot be empty">>)))
    ELSE IF config.description = <<>>
    THEN Ok(ValidationCheck(<<"Configuration">>, "Warning",
                Some(<<"Project ", "description", " is empty">>)))
    ELSE Ok(ValidationCheck(<<"Configuration">>, "Pass", None))

\* validate_project: config is None when .fargin/config.toml cannot be loaded
validate_project(project) ==
    IF ~IsSome(project.config) THEN Err("Failed to load project configuration")
    ELSE Ok([checks |-> <<validate_directory_structure(project.dirs).val,
                          validate_configuration(Unwrap(project.config)).val>>])

has_errors(report) == \E i \in 1..Len(report.checks) : report.checks[i].status = "Error"

\* the sets of required directories that can exist together
DirStates ==
    {ds \in SUBSET {required_dirs[i] : i \in 1..Len(required_dirs)} :
        ds # {} => required_dirs[1] \in ds}

\* ProjectConfig values: name and description
Configs ==
    {[name |-> n, description |-> d] : n \in {<<>>, <<"Demo">>}, d \in {<<>>, <<"d">>}}

\* projects: a configuration can be loaded only from .fargin/config.toml
Projects ==
    {[dirs |-> ds, config |-> c] :
        ds \in DirStates, c \in {None} \cup {Some(k) : k \in Configs}} \
    {[dirs |-> {}, config |-> Some(k)] : k \in Configs}

ReportCall(fn, result) == [fn |-> fn, result |-> result]

ValidationInit ==
    /\ input \in Projects
    /\ output = None
    /\ now = 0 /\ ops = 0
    /\ StoreIdle /\ FactsIdle /\ RunIdle /\ LoopIdle

ValidateDirectoryStructure ==
    /\ output' = Some(ReportCall("validate_directory_structure",
                          validate_directory_structure(input.dirs)))
    /\ UNCHANGED <<input, notReports>>

ValidateConfiguration ==
    /\ IsSome(input.config)
    /\ output' = Some(ReportCall("validate_configuration",
                          validate_configuration(Unwrap(input.config))))
    /\ UNCHANGED <<input, notReports>>

ValidateProject ==
    /\ output' = Some(ReportCall("validate_project", validate_project(input)))
    /\ UNCHANGED <<input, notReports>>

ValidationNext == ValidateDirectoryStructure \/ ValidateConfiguration \/ ValidateProject

SpecValidation == ValidationInit /\ [][ValidationNext]_vars

----------------------------------------------------------------------------
(* Claims about validation *)

Returned(fn) == IsSome(output) /\ Unwrap(output).fn = fn /\ Unwrap(output).result.ok

\* C17: validate_directory_structure returns Error with a message naming the
\* first absent one of the four required directories, and Pass with no
\* message exactly when all four exist; a validate_project report over a
\* project missing one of them has errors.
C17_DirectoryStructure ==
    LET absent == {i \in 1..Len(required_dirs) : required_dirs[i] \notin input.dirs}
        check == Unwrap(output).result.val
    IN  /\ Returned("validate_directory_structure") =>
              /\ absent = {} <=> check.status = "Pass"
              /\ absent = {} => check.message = None
              /\ absent # {} =>
                    /\ check.status = "Error"
                    /\ IsSome(check.message)
                    /\ \E i \in absent :
                          /\ \A j \in absent : i <= j
                          /\ contains(Unwrap(check.message), <<required_dirs[i]>>)
                          /\ \A j \in absent \ {i} :
                                ~contains(Unwrap(check.message), <<required_dirs[j]>>)
        /\ (Returned("validate_project") /\ absent # {}) => has_errors(check)

\* a validate_project report over a project with a valid configuration
\* that lacks .fargin/templates only
C17_Witness ==
    /\ Returned("validate_project")
    /\ input.dirs = {required_dirs[1], required_dirs[2], required_dirs[3]}
    /\ Unwrap(input.config).name # <<>> /\ Unwrap(input.config).description # <<>>
    /\ has_errors(Unwrap(output).result.val)
    /\ contains(Unwrap(Unwrap(output).result.val.checks[1].message), <<".fargin/templates">>)

\* C18: validate_configuration returns Error with a message about the name
\* when the name is empty, Warning with a message containing "description"
\* when only the description is empty, and Pass otherwise; an empty
\* description alone does not make a report have errors.
C18_Configuration ==
    LET config == Unwrap(input.config)
        check == Unwrap(output).result.val
    IN  /\ Returned("validate_configuration") =>
              /\ config.name = <<>> =>
                    /\ check.status = "Error"
                    /\ contains(Unwrap(check.message), <<"name">>)
              /\ (config.name # <<>> /\ config.description = <<>>) =>
                    /\ check.status = "Warning"
                    /\ contains(Unwrap(check.message), <<"description">>)
              /\ (config.name # <<>> /\ config.description # <<>>) =>
                    check.status = "Pass"
        /\ (/\ Returned("validate_project")
            /\ config.name # <<>>
            /\ input.dirs = {required_dirs[i] : i \in 1..Len(required_dirs)}) =>
              ~has_errors(check)

\* a validate_project report over a complete project named "Demo" with an
\* empty description: a warning and no error
C18_Witness ==
    /\ Returned("validate_project")
    /\ Unwrap(input.config) = [name |-> <<"Demo">>, description |-> <<>>]
    /\ input.dirs = {required_dirs[i] : i \in 1..Len(required_dirs)}
    /\ Unwrap(output).result.val.checks[2].status = "Warning"
    /\ ~has_errors(Unwrap(output).result.val)

----------------------------------------------------------------------------
(* Suggestions (src/src/suggest.rs) *)

MaxMarkers == 3       \* progress markers a project has at most

\* #[derive(Ord)] on SuggestionPriority: variants compare in declaration order
priority_ord(p) ==
    CASE p = "Critical" -> 0 [] p = "High" -> 1 [] p = "Medium" -> 2 [] p = "Low" -> 3

Suggestion(category, priority, title) ==
    [category |-> category, priority |-> priority, title |-> title]

generate_technical_suggestions(report, progress) ==
    Flatten([i \in 1..Len(report.checks) |->
                CASE report.checks[i].status = "Error" ->
                        <<Suggestion("Technical", "Critical",
                              <<"Critical Technical Issue: ">> \o report.checks[i].name)>>
                  [] report.checks[i].status = "Warning" ->
                        <<Suggestion("Technical", "Medium",
                              <<"Technical Configuration Warning: ">> \o report.checks[i].name)>>
                  [] OTHER -> <<>>]) \o
    (IF progress.completed_markers < progress.total_markers \div 2
     THEN <<Suggestion("Technical", "High", <<"Low Progress Detected">>)>>
     ELSE <<>>)

\* prompts and templates are the lengths of the two fact lists
generate_documentation_suggestions(prompts, templates) ==
    (IF prompts = 0
     THEN <<Suggestion("Documentation", "High", <<"No Project Prompts Documented">>)>>
     ELSE IF prompts < 5
     THEN <<Suggestion("Documentation", "Medium", <<"Limited Prompt Documentation">>)>>
     ELSE <<>>) \o
    (IF templates = 0
     THEN <<Suggestion("Documentation", "Medium", <<"No Project Templates Documented">>)>>
     ELSE <<>>)

generate_refactoring_suggestions(report) ==
    IF \E i \in 1..Len(report.checks) :
          \/ contains(report.checks[i].name, <<"code">>)
          \/ contains(report.checks[i].name, <<"style">>)
    THEN <<Suggestion("Refactoring", "Medium", <<"Code Quality Improvement Opportunities">>)>>
    ELSE <<>>

generate_testing_suggestions(progress) ==
    IF progress.total_markers > 0 /\ progress.completed_markers = 0
    THEN <<Suggestion("Testing", "High", <<"No Progress Markers Completed">>)>>
    ELSE <<>>

\* the suggestions collected before the verbosity filter
collect_suggestions(in) ==
    LET report == validate_project(in.project).val
        wanted(type) == in.suggestion_type = "all" \/ in.suggestion_type = type
    IN  (IF wanted("technical")
         THEN generate_technical_suggestions(report, in.progress) ELSE <<>>) \o
        (IF wanted("documentation")
         THEN generate_documentation_suggestions(in.prompts, in.templates) ELSE <<>>) \o
        (IF wanted("refactoring") THEN generate_refactoring_suggestions(report) ELSE <<>>) \o
        (IF wanted("testing") THEN generate_testing_suggestions(in.progress) ELSE <<>>)

\* sorted_suggestions.sort_by(|a, b| b.priority.cmp(&a.priority)): stable
RECURSIVE sort_by_priority_rev(_)
sort_by_priority_rev(ss) ==
    IF ss = <<>> THEN <<>>
    ELSE LET done == sort_by_priority_rev(SubSeq(ss, 1, Len(ss) - 1))
             x == ss[Len(ss)]
             k == Cardinality({i \in 1..Len(done) :
                                 priority_ord(done[i].priority) >= priority_ord(x.priority)})
         IN  SubSeq(done, 1, k) \o <<x>> \o SubSeq(done, k + 1, Len(done))

generate_suggestions(in) ==
    IF ~validate_project(in.project).ok THEN validate_project(in.project)
    ELSE LET suggestions == collect_suggestions(in)
             filtered ==
                IF in.verbosity = "brief"
                THEN SelectSeq(suggestions,
                         LAMBDA x : priority_ord(x.priority) >= priority_ord("High"))
                ELSE suggestions
         IN  Ok(sort_by_priority_rev(filtered))

\* arguments of generate_suggestions and what it reads from the project
SuggestInputs ==
    {[project |-> p, progress |-> [total_markers |-> t, completed_markers |-> c],
      prompts |-> np, templates |-> nt, suggestion_type |-> st, verbosity |-> v] :
        p \in {q \in Projects : Cardinality(q.dirs) >= 3},
        t \in 0..MaxMarkers, c \in 0..MaxMarkers,
        np \in {0, 1, 5}, nt \in {0, 1},
        st \in {"all", "technical", "documentation", "refactoring", "testing", "none"},
        v \in {"brief", "normal", "detailed"}}

SuggestInit ==
    /\ input \in {in \in SuggestInputs :
                     in.progress.completed_markers <= in.progress.total_markers}
    /\ output = None
    /\ now = 0 /\ ops = 0
    /\ StoreIdle /\ FactsIdle /\ RunIdle /\ LoopIdle

GenerateSuggestions ==
    /\ output' = Some(ReportCall("generate_suggestions", generate_suggestions(input)))
    /\ UNCHANGED <<input, notReports>>

SpecSuggest == SuggestInit /\ [][GenerateSuggestions]_vars

----------------------------------------------------------------------------
(* Claims about suggestions *)

\* C14: with verbosity "brief" generate_suggestions returns exactly the
\* collected suggestions whose priority is High or Critical; with any other
\* verbosity it returns every collected suggestion.
C14_BriefKeepsHighAndCritical ==
    Returned("generate_suggestions") =>
        LET got == Unwrap(output).result.val
            all == collect_suggestions(input)
            kept == IF input.verbosity = "brief"
                    THEN SelectSeq(all, LAMBDA x : x.priority \in {"High", "Critical"})
                    ELSE all
        IN  /\ {got[i] : i \in 1..Len(got)} = {kept[i] : i \in 1..Len(kept)}
            /\ Len(got) = Len(kept)

\* C15: the list generate_suggestions returns has every Critical suggestion
\* before every High one, every High before every Medium, every Medium
\* before every Low.
C15_CriticalFirst ==
    Returned("generate_suggestions") =>
        LET got == Unwrap(output).result.val
            level(p) == CASE p = "Critical" -> 4 [] p = "High" -> 3
                          [] p = "Medium" -> 2 [] p = "Low" -> 1
        IN  \A i, j \in 1..Len(got) :
                i < j => level(got[i].priority) >= level(got[j].priority)

----------------------------------------------------------------------------
(* Feature health (src/src/check.rs).  "Status: " is one chunk: that text  *)
(* occurs in a file exactly where the chunk occurs.                        *)

\* a health check that reads the status line the store writes
status_from_template(content) ==
    IF contains(content, <<"- **Status**: ", "Implemented">>) THEN "Implemented"
    ELSE IF contains(content, <<"- **Status**: ", "InProgress">>) THEN "InProgress"
    ELSE IF contains(content, <<"- **Status**: ", "Blocked">>) THEN "Blocked"
    ELSE "Proposed"

\* the status the health check reads from a file's content
status_from_content(content) ==
    IF contains(content, <<"Status: ", "Implemented">>) THEN "Implemented"
    ELSE IF contains(content, <<"Status: ", "InProgress">>) THEN "InProgress"
    ELSE IF contains(content, <<"Status: ", "Blocked">>) THEN "Blocked"
    ELSE "Proposed"

\* the report over the entries with an extension in exts, read in the given
\* order; dir is None when .fargin/features does not exist, t is
\* SystemTime::now()
feature_health_report(dir, t, order, exts) ==
    IF ~IsSome(dir)
    THEN Ok([total_features |-> 0, status_distribution |-> <<>>, stale_features |-> <<>>])
    ELSE LET fs == Unwrap(dir)
             md == {n \in DOMAIN fs : n.ext \in exts}
             status(n) == status_from_content(fs[n].content)
             days(n) == IF t >= fs[n].modified
                        THEN (t - fs[n].modified) \div (24 * 3600) ELSE 0
         IN  Ok([total_features |-> Cardinality(md),
                 status_distribution |->
                    [st \in {status(n) : n \in md} |->
                        Cardinality({n \in md : status(n) = st})],
                 stale_features |->
                    SelectSeq(order, LAMBDA n : n.ext \in exts /\ days(n) > 30)])

\* a health check that counts every entry of the directory
check_feature_health_every_entry(dir, t, order) ==
    feature_health_report(dir, t, order, {"md", "txt"})

check_feature_health(dir, t, order) ==
    feature_health_report(dir, t, order, {"md"})

\* the file save_feature writes for a feature of the given status
StoreWritten(status) ==
    save_feature_content(
        [new_feature(<<"0", "__", "a">>, <<"a">>, Some("d"), Some(<<"t">>), Some("High"),
                     None, 0)
            EXCEPT !.status = status])

\* what a file under .fargin/features may hold: files the store wrote, and
\* files written by hand with one or several status markers
HealthContents ==
    {StoreWritten("Implemented"),
     StoreWritten("Blocked"),
     <<"Status: ", "Implemented">>,
     <<"x", "\n", "Status: ", "Blocked", "\n", "Status: ", "InProgress">>,
     <<"Status: ", "Deprecated", "\n", "Status: ", "Blocked", "\n", "Status: ", "Implemented">>,
     <<"Status: ", "Deprecated">>}

\* the features directory, absent or with up to three entries, and the clock
HealthInputs ==
    LET names == {FileName(<<"a">>, "md"), FileName(<<"b">>, "md"), FileName(<<"r">>, "txt")}
        entries == [content : HealthContents, modified : {0, 24 * 3600}]
        dirs == UNION {[ns -> entries] : ns \in SUBSET names}
    IN  {[dir |-> d, time |-> t] :
            d \in {None} \cup {Some(fs) : fs \in dirs},
            t \in {0, 31 * 24 * 3600 + 1, 32 * 24 * 3600}}

HealthInit ==
    /\ input \in HealthInputs
    /\ output = None
    /\ now = 0 /\ ops = 0
    /\ StoreIdle /\ FactsIdle /\ RunIdle /\ LoopIdle

\* check_feature_health; fs::read_dir yields the entries in some order
CheckFeatureHealth ==
    /\ \E order \in IF IsSome(input.dir)
                    THEN {o \in [1..Cardinality(DOMAIN Unwrap(input.dir)) ->
                                    DOMAIN Unwrap(input.dir)] :
                             \A i, j \in DOMAIN o : o[i] = o[j] => i = j}
                    ELSE {<<>>} :
          output' = Some(ReportCall("check_feature_health",
                             check_feature_health(input.dir, input.time, order)))
    /\ UNCHANGED <<input, notReports>>

SpecHealth == HealthInit /\ [][CheckFeatureHealth]_vars

----------------------------------------------------------------------------
(* Claims about feature health *)

\* C19: check_feature_health over an absent features directory, or one
\* holding no .md file, returns total_features 0, an empty distribution and
\* an empty stale list, and leaves the directory as it was; in every report
\* total_features is the sum of the distribution's counts and the stale list
\* has at most total_features entries.
C19_HealthReport ==
    [][(IsSome(output') /\ Unwrap(output').fn = "check_feature_health") =>
          LET report == Unwrap(output').result.val
              dist == report.status_distribution
              count(st) == IF st \in DOMAIN dist THEN dist[st] ELSE 0
          IN  /\ Unwrap(output').result.ok
              /\ input'.dir = input.dir
              /\ (\/ ~IsSome(input.dir)
                  \/ \A n \in DOMAIN Unwrap(input.dir) : n.ext # "md") =>
                    /\ report.total_features = 0
                    /\ DOMAIN dist = {}
                    /\ report.stale_features = <<>>
              /\ DOMAIN dist \subseteq FeatureStatusValues
              /\ \A st \in DOMAIN dist : dist[st] > 0
              /\ report.total_features =
                    count("Proposed") + count("InProgress") + count("Implemented")
                        + count("Blocked") + count("Deprecated")
              /\ Len(report.stale_features) <= report.total_features]_vars

\* a report with no feature over a directory whose only entry is a file
\* that is not a .md file, last modified more than 30 days ago
C19_Witness ==
    /\ Returned("check_feature_health")
    /\ IsSome(input.dir)
    /\ DOMAIN Unwrap(input.dir) = {FileName(<<"r">>, "txt")}
    /\ Unwrap(input.dir)[FileName(<<"r">>, "txt")].modified = 0
    /\ input.time > 31 * 24 * 3600
    /\ Unwrap(output).result.val.total_features = 0
    /\ Unwrap(output).result.val.stale_features = <<>>

----------------------------------------------------------------------------
(* Project checks (src/src/check.rs): run_project_checks runs three tools  *)
(* one after the other; each tool's stdout and stderr go through a pipe, a *)
(* reader thread, a channel and a printer thread.                          *)

MaxLines == 3         \* lines the tools of a run write at most, all streams together
PipeCap == 1          \* lines a pipe holds before the writer blocks

\* the stages, in the order run_project_checks runs them
Tools == <<"Cargo Formatting Check", "Cargo Clippy Linting", "Cargo Test Suite">>

Streams == {"stdout", "stderr"}

\* exit codes of a tool
ExitCodes == {0, 1}

\* a stage whose exit status is not looked at
stage_result_ignored(stage, code) == Ok(<<>>)

\* if !status.success() { return Err("{stage} failed") } ... Ok(())
stage_result(stage, code) ==
    IF code # 0 THEN Err(<<Tools[stage], " failed">>) ELSE Ok(<<>>)

RunInit ==
    /\ run = [pc |-> "call", stage |-> 0, result |-> None,
              started |-> <<>>, exited |-> <<>>, lines |-> 0,
              child |-> None,
              pipe |-> [k \in (1..Len(Tools)) \X Streams |-> <<>>],
              chan |-> [k \in (1..Len(Tools)) \X Streams |-> <<>>],
              printed |-> [k \in (1..Len(Tools)) \X Streams |-> <<>>]]
    /\ now = 0 /\ ops = 0
    /\ StoreIdle /\ FactsIdle /\ ReportsIdle /\ LoopIdle

\* std::env::set_current_dir(&self.project_root)?
SetCurrentDir ==
    /\ run.pc = "call"
    /\ \/ run' = [run EXCEPT !.pc = "spawn", !.stage = 1]
       \/ run' = [run EXCEPT !.pc = "done",
                             !.result = Some(Err(<<"No such file or directory">>))]
    /\ UNCHANGED notRun

\* cmd.stdout(piped).stderr(piped).spawn()? and the four thread::spawn calls
Spawn ==
    /\ run.pc = "spawn"
    /\ \/ run' = [run EXCEPT !.pc = "wait",
                             !.started = Append(@, Tools[run.stage]),
                             !.child = Some([stage |-> run.stage, exit |-> None,
                                             blocked |-> None,
                                             written |-> [x \in Streams |-> 0]])]
       \/ run' = [run EXCEPT !.pc = "done",
                             !.result = Some(Err(<<"program not found">>))]
    /\ UNCHANGED notRun

\* the tool writes a line to one of its streams: the line goes into the
\* pipe, or the pipe is full and the tool blocks in the write until it is not
ChildWrite(x) ==
    /\ IsSome(run.child) /\ ~IsSome(Unwrap(run.child).exit)
    /\ LET c == Unwrap(run.child)
       IN  IF Len(run.pipe[<<c.stage, x>>]) < PipeCap
           THEN /\ \/ c.blocked = Some(x)
                   \/ c.blocked = None /\ run.lines < MaxLines
                /\ run' = [run EXCEPT
                              !.lines = IF c.blocked = None THEN @ + 1 ELSE @,
                              !.child = Some([c EXCEPT !.written[x] = @ + 1,
                                                       !.blocked = None]),
                              !.pipe[<<c.stage, x>>] = Append(@, c.written[x] + 1)]
           ELSE /\ c.blocked = None /\ run.lines < MaxLines
                /\ run' = [run EXCEPT !.lines = @ + 1,
                                      !.child = Some([c EXCEPT !.blocked = Some(x)])]
    /\ UNCHANGED notRun

\* the tool exits, closing both streams
ChildExit(code) ==
    /\ IsSome(run.child) /\ ~IsSome(Unwrap(run.child).exit)
    /\ Unwrap(run.child).blocked = None
    /\ run' = [run EXCEPT !.child = Some([Unwrap(run.child) EXCEPT !.exit = Some(code)])]
    /\ UNCHANGED notRun

\* a run that reads only the tool's stdout
reader_spawned_for_stdout(x) == x = "stdout"

\* the streams a reader thread is spawned for
reader_spawned(x) == x \in Streams

\* a reader thread: for line in reader.lines() { tx.send(line) }
ReadLine(k) ==
    /\ reader_spawned(k[2])
    /\ run.pipe[k] # <<>>
    /\ run' = [run EXCEPT !.pipe[k] = Tail(@), !.chan[k] = Append(@, Head(run.pipe[k]))]
    /\ UNCHANGED notRun

\* a printer thread: while let Ok(line) = rx.recv() { println!(line) };
\* the line is noted with whether its stage's passed or failed line had
\* been printed before it
PrintLine(k) ==
    /\ run.chan[k] # <<>>
    /\ run' = [run EXCEPT
                  !.chan[k] = Tail(@),
                  !.printed[k] = Append(@, [line |-> Head(run.chan[k]),
                                            late |-> Len(run.exited) >= k[1]])]
    /\ UNCHANGED notRun

\* child.wait()? returns; the stage's passed or failed line; the next stage,
\* or the return of run_project_checks
Wait ==
    /\ run.pc = "wait"
    /\ IsSome(Unwrap(run.child).exit)
    /\ LET code == Unwrap(Unwrap(run.child).exit)
           res == stage_result(run.stage, code)
           seen == [run EXCEPT
                       !.child = None,
                       !.exited = Append(@, [tool |-> Tools[run.stage], code |-> code])]
       IN  run' = IF ~res.ok
                  THEN [seen EXCEPT !.pc = "done", !.result = Some(res)]
                  ELSE IF run.stage < Len(Tools)
                  THEN [seen EXCEPT !.pc = "spawn", !.stage = @ + 1]
                  ELSE [seen EXCEPT !.pc = "done", !.result = Some(Ok(<<>>))]
    /\ UNCHANGED notRun

RunNext ==
    \/ SetCurrentDir
    \/ Spawn
    \/ \E x \in Streams : ChildWrite(x)
    \/ \E code \in ExitCodes : ChildExit(code)
    \/ \E k \in (1..Len(Tools)) \X Streams : ReadLine(k)
    \/ \E k \in (1..Len(Tools)) \X Streams : PrintLine(k)
    \/ Wait

SpecChecks == RunInit /\ [][RunNext]_vars

\* the same, where the tool and the threads keep being scheduled: a step
\* that some of them can take is eventually taken
SpecChecksFair == SpecChecks /\ WF_vars(RunNext)

----------------------------------------------------------------------------
(* Claims about the project checks *)

\* C16: run_project_checks starts the formatter, then the linter, then the
\* test runner, each only after the one before has exited with success; the
\* first tool seen to exit non-zero makes the call return an error and no
\* later tool is started; the call returns success only when all three have
\* exited with success.
C16_StagesInSequence ==
    /\ Len(run.started) <= Len(Tools)
    /\ \A i \in 1..Len(run.started) :
          /\ run.started[i] = Tools[i]
          /\ i > 1 => /\ Len(run.exited) >= i - 1
                      /\ run.exited[i - 1] = [tool |-> Tools[i - 1], code |-> 0]
    /\ \A i \in 1..Len(run.exited) :
          run.exited[i].code # 0 =>
              /\ IsSome(run.result) /\ ~Unwrap(run.result).ok
              /\ Len(run.started) = i
              /\ run.pc = "done"
    /\ (IsSome(run.result) /\ Unwrap(run.result).ok) =>
          /\ Len(run.exited) = Len(Tools)
          /\ \A i \in 1..Len(Tools) : run.exited[i] = [tool |-> Tools[i], code |-> 0]

\* the linter has exited non-zero after the formatter passed: the call has
\* returned an error and the test runner was not started
C16_Witness ==
    /\ run.pc = "done"
    /\ run.started = <<Tools[1], Tools[2]>>
    /\ Len(run.exited) = 2 /\ run.exited[1].code = 0 /\ run.exited[2].code = 1
    /\ ~Unwrap(run.result).ok

----------------------------------------------------------------------------
(* Further claims about feature health *)

----------------------------------------------------------------------------
(* Further claims about suggestions *)

\* C28: when technical suggestions are generated, the suggestion "Low
\* Progress Detected" is in the result exactly when twice the completed
\* markers is less than the total, for every 0 <= completed <= total; in
\* particular never when the total is 0.
C28_LowProgressBelowHalf ==
    (Returned("generate_suggestions") /\ input.suggestion_type \in {"all", "technical"}) =>
        LET got == Unwrap(output).result.val
            progress == input.progress
        IN  (\E i \in 1..Len(got) : got[i].title = <<"Low Progress Detected">>)
                <=> 2 * progress.completed_markers < progress.total_markers

----------------------------------------------------------------------------
(* The check commands (src/src/lib.rs, Commands::Check): one run of the    *)
(* project checks, or a loop of runs.  A directory is the sequence of its  *)
(* names from the root; the process has one working directory.             *)

\* the largest iteration cap tried
MaxIterations == 2

\* how many runs a loop is followed for
MaxRuns == 3

\* the working directory the command is started in
StartDir == <<"w">>

\* a path argument: absolute or relative, and its components
PathBuf(absolute, components) == [absolute |-> absolute, components |-> components]

\* the directory a path names for a process whose working directory is cwd
resolve(cwd, path) ==
    LET named == SelectSeq(path.components, LAMBDA c : c # ".")
    IN  IF path.absolute THEN named ELSE cwd \o named

\* std::env::set_current_dir: the new working directory, or an error
set_current_dir(cwd, dirs, path) ==
    IF resolve(cwd, path) \in dirs THEN Ok(resolve(cwd, path)) ELSE Err("No such file or directory")

\* run_project_checks as its caller sees it: the working directory it
\* leaves, the directory the tools ran in, how many tools ran, the result.
\* failing is the first tool that fails, 0 when none does.
run_project_checks(cwd, dirs, project_root, failing) ==
    LET moved == set_current_dir(cwd, dirs, project_root)
    IN  IF ~moved.ok
        THEN [cwd |-> cwd, dir |-> None, stages |-> 0, result |-> moved]
        ELSE [cwd |-> moved.val, dir |-> Some(moved.val),
              stages |-> IF failing = 0 THEN Len(Tools) ELSE failing,
              result |-> IF failing = 0 THEN Ok(<<>>) ELSE Err(Tools[failing])]

\* a loop that stops once it has gone past the cap
limit_passed(iterations, iteration_count) == iteration_count > iterations

\* if iterations > 0 && iteration_count >= iterations
limit_reached(iterations, iteration_count) ==
    iterations > 0 /\ iteration_count >= iterations

\* the project paths tried: the working directory, a relative path, an
\* absolute path, a path that names nothing
ProjectRoots ==
    {PathBuf(FALSE, <<".">>), PathBuf(FALSE, <<"p">>), PathBuf(TRUE, <<"w", "p">>),
     PathBuf(FALSE, <<"q">>)}

\* the directories that exist: the project may hold a directory of its own name
DirTrees ==
    {{<<"w">>, <<"w", "p">>}, {<<"w">>, <<"w", "p">>, <<"w", "p", "p">>}}

LoopInit ==
    /\ loop \in {[op |-> op, pc |-> "run", project_root |-> path, dirs |-> dirs,
                  iterations |-> n, iteration_count |-> 0, cwd |-> StartDir,
                  runs |-> <<>>, sleeps |-> 0, result |-> None] :
                    op \in {"Run", "Loop"}, path \in ProjectRoots, dirs \in DirTrees,
                    n \in 0..MaxIterations}
    /\ now = 0 /\ ops = 0
    /\ StoreIdle /\ FactsIdle /\ ReportsIdle /\ RunIdle

\* what a run leaves in the record of runs
RunMade(r) == [dir |-> r.dir, stages |-> r.stages, ok |-> r.result.ok]

\* CheckOperation::Run
CheckRun(failing) ==
    /\ loop.op = "Run" /\ loop.pc = "run"
    /\ LET r == run_project_checks(loop.cwd, loop.dirs, loop.project_root, failing)
       IN  loop' = [loop EXCEPT !.pc = "done", !.cwd = r.cwd,
                                !.runs = Append(@, RunMade(r)),
                                !.result = Some(r.result)]
    /\ UNCHANGED notLoop

\* CheckOperation::Loop, one turn of the loop up to the break or the sleep
CheckLoop(failing) ==
    /\ loop.op = "Loop" /\ loop.pc = "run"
    /\ loop.iteration_count < MaxRuns
    /\ LET r == run_project_checks(loop.cwd, loop.dirs, loop.project_root, failing)
           stop == limit_reached(loop.iterations, loop.iteration_count + 1)
       IN  loop' = [loop EXCEPT !.pc = IF stop THEN "done" ELSE "sleep",
                                !.iteration_count = @ + 1,
                                !.cwd = r.cwd,
                                !.runs = Append(@, RunMade(r)),
                                !.result = IF stop THEN Some(Ok(<<>>)) ELSE None]
    /\ UNCHANGED notLoop

\* thread::sleep(Duration::from_secs(interval)) returns
Sleep ==
    /\ loop.op = "Loop" /\ loop.pc = "sleep"
    /\ loop' = [loop EXCEPT !.pc = "run", !.sleeps = @ + 1]
    /\ UNCHANGED notLoop

LoopNext ==
    \/ \E failing \in 0..Len(Tools) : CheckRun(failing)
    \/ \E failing \in 0..Len(Tools) : CheckLoop(failing)
    \/ Sleep

SpecLoop == LoopInit /\ [][LoopNext]_vars

----------------------------------------------------------------------------
(* Claims about the loop of runs *)

\* C22: a loop with cap n > 0 makes exactly n runs, then stops and returns
\* success whether or not runs failed; a loop with cap 0 never stops; no
\* sleep follows the last run.
C22_LoopCap ==
    loop.op = "Loop" =>
        /\ loop.iterations > 0 =>
              /\ Len(loop.runs) <= loop.iterations
              /\ loop.pc = "done" <=> Len(loop.runs) = loop.iterations
        /\ loop.iterations = 0 => loop.pc # "done"
        /\ loop.pc = "done" =>
              /\ loop.result = Some(Ok(<<>>))
              /\ loop.sleeps = Len(loop.runs) - 1
        /\ loop.pc = "run" => loop.sleeps = Len(loop.runs)
        /\ loop.pc = "sleep" => loop.sleeps = Len(loop.runs) - 1

\* a loop of two runs has stopped with success after a failed run
C22_Witness ==
    /\ loop.op = "Loop" /\ loop.pc = "done"
    /\ loop.iterations = 2 /\ Len(loop.runs) = 2
    /\ ~loop.runs[1].ok /\ loop.runs[1].stages > 0
    /\ loop.result = Some(Ok(<<>>))

\* C23: every run of the tools executes in the directory the project path
\* named when the command was started, and every iteration of a loop runs in
\* the directory the first one ran in.
C23_SameDirectory ==
    \A i \in 1..Len(loop.runs) :
        /\ loop.runs[i].stages > 0 =>
              loop.runs[i].dir = Some(resolve(StartDir, loop.project_root))
        /\ loop.runs[i].dir = loop.runs[1].dir

----------------------------------------------------------------------------
(* Claims about the streaming of a tool's output *)

\* the pipes and channels of the stages whose tool was waited for are empty
Drained ==
    \A k \in (1..Len(Tools)) \X Streams :
        k[1] <= Len(run.exited) => run.pipe[k] = <<>> /\ run.chan[k] = <<>>

\* C24: streaming cannot deadlock: however the tools interleave their lines
\* on the two streams, every tool gets to exit, run_project_checks returns,
\* and the readers and printers of every stage run out of lines.
C24_NoDeadlock == <>(run.pc = "done" /\ run.child = None /\ Drained)

\* a tool is blocked writing to stderr while its stdout pipe is full as well
C24_Witness ==
    /\ IsSome(run.child)
    /\ Unwrap(run.child).blocked = Some("stderr")
    /\ Len(run.pipe[<<Unwrap(run.child).stage, "stdout">>]) = PipeCap

\* C25: when a stage's passed or failed line is printed every line its tool
\* wrote has been printed, each stream in order; no line of a stage is
\* printed after that, so none after the next stage has started or after
\* run_project_checks has returned.
C25_OutputBeforeVerdict ==
    \A k \in (1..Len(Tools)) \X Streams :
        /\ k[1] <= Len(run.exited) => run.pipe[k] = <<>> /\ run.chan[k] = <<>>
        /\ \A i \in 1..Len(run.printed[k]) :
              run.printed[k][i].line = i /\ ~run.printed[k][i].late

----------------------------------------------------------------------------
(* The feature store next to another party that writes and removes files   *)
(* in .fargin/features, and on a filesystem whose writes can fail.         *)

\* what another party writes into a feature file
ExternalContent == <<FeaturePrefix, "e", "\n", "- **Status**: ", "Blocked">>

\* the files another party touches: those of indexed features, the one the
\* next add_feature of name "a" would write, and one of its own
ExternalIds ==
    DOMAIN features \cup {generate_feature_id(<<"a">>, now), <<"e">>}

\* another party creates or rewrites a file
ExternalWrite(id) ==
    /\ Step
    /\ ~(FeatureFile(id) \in DOMAIN files /\ files[FeatureFile(id)] = ExternalContent)
    /\ files' = [n \in DOMAIN files \cup {FeatureFile(id)} |->
                    IF n = FeatureFile(id) THEN ExternalContent ELSE files[n]]
    /\ last' = [op |-> "external", id |-> id, req |-> <<>>, result |-> Ok(<<>>)]
    /\ UNCHANGED <<features, now, notStore>>

\* another party deletes a file
ExternalRemove(id) ==
    /\ Step
    /\ FeatureFile(id) \in DOMAIN files
    /\ files' = remove_file(files, FeatureFile(id)).fs
    /\ last' = [op |-> "external", id |-> id, req |-> <<>>, result |-> Ok(<<>>)]
    /\ UNCHANGED <<features, now, notStore>>

\* what a failed fs::write may leave: the directory as it was, or the file
\* created or truncated and not written
write_failed(fs, n) ==
    {fs, [m \in DOMAIN fs \cup {n} |-> IF m = n THEN <<>> ELSE fs[m]]}

\* add_feature when self.save_feature(&feature)? returns the error
AddFeatureFailing(name, description, tags, priority, assigned_to) ==
    LET id == generate_feature_id(name, now)
        req == AddRequest(name, description, tags, priority, assigned_to)
    IN  /\ ~already_exists(features, id)
        /\ Step
        /\ files' \in write_failed(files, FeatureFile(id))
        /\ last' = [op |-> "add", id |-> id, req |-> req, result |-> Err("write failed")]
        /\ UNCHANGED <<features, now, notStore>>

\* update_feature when self.save_feature(&feature_clone)? returns the
\* error: the fields were assigned through get_mut before the save
UpdateFeatureFailing(id, updates) ==
    LET found == get_mut(features, id)
    IN  /\ IsSome(found)
        /\ Step
        /\ features' = insert(features, id, apply_updates(Unwrap(found), updates))
        /\ files' \in write_failed(files, FeatureFile(id))
        /\ last' = [op |-> "update", id |-> id, req |-> updates,
                    result |-> Err("write failed")]
        /\ UNCHANGED <<now, notStore>>

\* the calls made next to the other party: one add request, one update
SharedAdds == {r \in AddRequests : r.name = <<"a">>}
SharedUpdates == {u \in UpdateRequests : u.status = Some("InProgress")}

SharedNext ==
    \/ NewManager
    \/ \E r \in SharedAdds :
          AddFeature(r.name, r.description, r.tags, r.priority, r.assigned_to)
    \/ \E id \in IdInputs, u \in SharedUpdates : UpdateFeature(id, u)
    \/ \E id \in IdInputs : DeleteFeature(id)
    \/ \E id \in IdInputs : GetFeature(id)
    \/ ListFeatures(None, None, None)
    \/ \E id \in ExternalIds : ExternalWrite(id)
    \/ \E id \in ExternalIds : ExternalRemove(id)
    \/ \E r \in SharedAdds :
          AddFeatureFailing(r.name, r.description, r.tags, r.priority, r.assigned_to)
    \/ \E id \in IdInputs, u \in SharedUpdates : UpdateFeatureFailing(id, u)

SpecShared == Init /\ [][SharedNext]_vars

----------------------------------------------------------------------------
(* Claims about the store's index *)

\* C26: the index is a snapshot taken at construction: a file created,
\* rewritten or deleted by another party changes no result of get_feature
\* or list_features, which are read from the index alone; add_feature looks
\* for its id in the index only, so it succeeds and writes its file also
\* where a file of that id exists.
C26_Snapshot ==
    [][/\ last'.op = "external" => features' = features
       /\ last'.op = "get" =>
             last'.result = IF last'.id \in DOMAIN features
                            THEN Some(features[last'.id]) ELSE None
       /\ last'.op = "list" =>
             \A i \in 1..Len(last'.result) :
                 \E id \in DOMAIN features : last'.result[i] = features[id]
       /\ (last'.op = "add" /\ ops' = ops + 1 /\ last'.id \notin DOMAIN features
             /\ files' # files /\ FeatureFile(last'.id) \in DOMAIN files) =>
             \/ /\ last'.result = Ok(last'.id)
                /\ files'[FeatureFile(last'.id)] = save_feature_content(features'[last'.id])
             \/ ~last'.result.ok /\ features' = features]_vars

\* get_feature has returned a feature as it was added although another
\* party has rewritten its file since
C26_Witness ==
    /\ last.op = "get" /\ IsSome(last.result)
    /\ last.id = generate_feature_id(<<"a">>, now)
    /\ Unwrap(last.result).name = <<"a">> /\ Unwrap(last.result).status = "Proposed"
    /\ FeatureFile(last.id) \in DOMAIN files
    /\ files[FeatureFile(last.id)] = ExternalContent

\* C27: a feature operation that returns an error leaves the index as it
\* was: after a failed add_feature the feature is not indexed, after a
\* failed update_feature the indexed record has its former field values.
C27_ErrorLeavesIndex ==
    [][(/\ ops' = ops + 1
        /\ last'.op \in {"add", "update", "delete"}
        /\ ~last'.result.ok) => features' = features]_vars

----------------------------------------------------------------------------
(* Project initialisation (src/src/config.rs).  The filesystem maps a path, *)
(* the sequence of its names below the working directory, to "dir" or      *)
(* "file"; a chain of calls joined by ? stops at the first that fails.     *)

Prefixes(path) == {SubSeq(path, 1, i) : i \in 0..Len(path)}

\* fs::create_dir_all: fails where a file is in the way
create_dir_all(fs, path) ==
    IF \E q \in Prefixes(path) : q \in DOMAIN fs /\ fs[q] = "file"
    THEN [ok |-> FALSE, fs |-> fs]
    ELSE [ok |-> TRUE,
          fs |-> [q \in DOMAIN fs \cup Prefixes(path) |->
                     IF q \in DOMAIN fs THEN fs[q] ELSE "dir"]]

\* fs::write: fails where the parent is not a directory or the path is one
fs_write(fs, path) ==
    LET parent == SubSeq(path, 1, Len(path) - 1)
    IN  IF parent \in DOMAIN fs /\ fs[parent] = "dir"
           /\ ~(path \in DOMAIN fs /\ fs[path] = "dir")
        THEN [ok |-> TRUE, fs |-> [q \in DOMAIN fs \cup {path} |->
                                      IF q = path THEN "file" ELSE fs[q]]]
        ELSE [ok |-> FALSE, fs |-> fs]

Mkdir(path) == [call |-> "create_dir_all", path |-> path]
Write(path) == [call |-> "write", path |-> path]

\* calls made one after the other, each followed by ?
RECURSIVE run_calls(_, _)
run_calls(fs, calls) ==
    IF calls = <<>> THEN [ok |-> TRUE, fs |-> fs]
    ELSE LET r == IF Head(calls).call = "write" THEN fs_write(fs, Head(calls).path)
                  ELSE create_dir_all(fs, Head(calls).path)
         IN  IF r.ok THEN run_calls(r.fs, Tail(calls)) ELSE r

subdirs == <<"prompts", "templates", "history", "artifacts", "docs">>

create_fargin_structure(fs, project_path) ==
    LET fargin_dir == project_path \o <<".fargin">>
    IN  run_calls(fs,
            <<Mkdir(fargin_dir)>> \o
            Flatten([i \in 1..Len(subdirs) |->
                        <<Mkdir(fargin_dir \o <<subdirs[i]>>),
                          Write(fargin_dir \o <<subdirs[i], "README.md">>)>>]) \o
            <<Mkdir(fargin_dir), Write(fargin_dir \o <<"config.toml">>),
              Write(fargin_dir \o <<"README.md">>), Write(fargin_dir \o <<".gitignore">>)>>)

\* what an init function leaves: its result, the filesystem, the processes started
InitOutcome(result, fs, started) == [result |-> result, fs |-> fs, started |-> started]

\* a directory made whether or not the run is a dry run
ensure_dir_always(fs, path, dry_run) == create_dir_all(fs, path)

\* if !dry_run { fs::create_dir_all(&path)?; }
ensure_dir(fs, path, dry_run) ==
    IF dry_run THEN [ok |-> TRUE, fs |-> fs] ELSE create_dir_all(fs, path)

\* if with_fargin && !dry_run { create_fargin_structure(&project_path)?; } Ok(())
finish_init(fs, project_path, with_fargin, dry_run, started) ==
    IF with_fargin /\ ~dry_run
    THEN LET r == create_fargin_structure(fs, project_path)
         IN  InitOutcome(IF r.ok THEN Ok(<<>>) ELSE Err("io error"), r.fs, started)
    ELSE InitOutcome(Ok(<<>>), fs, started)

\* a project generator run in absolute_path: status() fails to start it
\* (exit is None), or it exits; on exit 0 it has made the project directory
\* and a manifest
generate_project(in, command, failed) ==
    LET absolute_path == in.path
        project_path == absolute_path \o <<in.name>>
        made == ensure_dir(in.fs, absolute_path, in.dry_run)
        started == <<[command |-> command, current_dir |-> absolute_path]>>
    IN  IF ~made.ok THEN InitOutcome(Err("io error"), made.fs, <<>>)
        ELSE IF in.dry_run
        THEN finish_init(made.fs, project_path, in.with_fargin, in.dry_run, <<>>)
        ELSE IF in.exit = None
        THEN InitOutcome(Err("Failed to execute command"), made.fs, <<>>)
        ELSE IF in.exit # Some(0) THEN InitOutcome(Err(failed), made.fs, started)
        ELSE finish_init(
                 run_calls(made.fs, <<Mkdir(project_path),
                                      Write(project_path \o <<"Cargo.toml">>)>>).fs,
                 project_path, in.with_fargin, in.dry_run, started)

init_rust_project(in) ==
    generate_project(in,
        <<in.cargo_bin, "new", in.name>> \o
            (IF IsSome(in.template) THEN <<"--template", Unwrap(in.template)>> ELSE <<>>),
        "Cargo project initialization failed")

init_template_project(in) ==
    generate_project(in,
        <<"cargo", "generate", "--name", in.name, "--git", Unwrap(in.template)>>,
        "Template project initialization failed")

\* the files of a minimal project of a supported type
minimal_files(project_path, project_type) ==
    IF project_type = "rust"
    THEN <<Write(project_path \o <<"Cargo.toml">>), Mkdir(project_path \o <<"src">>),
           Write(project_path \o <<"src", "main.rs">>)>>
    ELSE <<Write(project_path \o <<"pyproject.toml">>), Mkdir(project_path \o <<"src">>),
           Write(project_path \o <<"src", "__init__.py">>),
           Write(project_path \o <<"src", "main.py">>)>>

init_minimal_project(in) ==
    LET project_path == in.path \o <<in.name>>
        made == ensure_dir(in.fs, project_path, in.dry_run)
    IN  IF ~made.ok THEN InitOutcome(Err("io error"), made.fs, <<>>)
        ELSE IF in.project_type \notin {"rust", "python"}
        THEN InitOutcome(Err("Unsupported project type"), made.fs, <<>>)
        ELSE LET written == IF in.dry_run THEN [ok |-> TRUE, fs |-> made.fs]
                            ELSE run_calls(made.fs,
                                           minimal_files(project_path, in.project_type))
             IN  IF ~written.ok THEN InitOutcome(Err("io error"), written.fs, <<>>)
                 ELSE finish_init(written.fs, project_path, in.with_fargin, in.dry_run,
                                  <<>>)

\* the filesystems an init command is started on: an empty working
\* directory, one where the project exists, one where a file has the name
\* of the directory to create the project in
InitFilesystems ==
    {[q \in {<<>>} |-> "dir"],
     [q \in {<<>>, <<"ws">>, <<"ws", "n">>} |-> "dir"],
     [q \in {<<>>, <<"ws">>} |-> IF q = <<>> THEN "dir" ELSE "file"]}

InitInputs ==
    {[fn |-> fn, name |-> "n", path |-> <<"ws">>, cargo_bin |-> "cargo",
      template |-> t, project_type |-> ty, with_fargin |-> wf, dry_run |-> dr,
      exit |-> x, fs |-> fs] :
        fn \in {"init_rust_project", "init_template_project", "init_minimal_project"},
        t \in {None, Some("t")}, ty \in {"rust", "python", "js"},
        wf \in BOOLEAN, dr \in BOOLEAN, x \in {None, Some(0), Some(1)},
        fs \in InitFilesystems}

\* each function with the arguments it has
ProjectInit ==
    /\ input \in {in \in InitInputs :
                    /\ in.fn = "init_rust_project" => in.project_type = "rust"
                    /\ in.fn = "init_template_project" =>
                          in.project_type = "rust" /\ IsSome(in.template)
                    /\ in.fn = "init_minimal_project" =>
                          in.template = None /\ in.exit = Some(0)}
    /\ output = None
    /\ now = 0 /\ ops = 0
    /\ StoreIdle /\ FactsIdle /\ RunIdle /\ LoopIdle

InitRustProject ==
    /\ input.fn = "init_rust_project" /\ output = None
    /\ output' = Some(init_rust_project(input))
    /\ UNCHANGED <<input, notReports>>

InitTemplateProject ==
    /\ input.fn = "init_template_project" /\ output = None
    /\ output' = Some(init_template_project(input))
    /\ UNCHANGED <<input, notReports>>

InitMinimalProject ==
    /\ input.fn = "init_minimal_project" /\ output = None
    /\ output' = Some(init_minimal_project(input))
    /\ UNCHANGED <<input, notReports>>

InitNext == InitRustProject \/ InitTemplateProject \/ InitMinimalProject

SpecInit == ProjectInit /\ [][InitNext]_vars

----------------------------------------------------------------------------
(* Claims about project initialisation *)

\* C29: with dry_run set, init_rust_project, init_template_project and
\* init_minimal_project create no file and no directory and start no
\* process, with or without with_fargin.
C29_DryRun ==
    (IsSome(output) /\ input.dry_run) =>
        /\ Unwrap(output).fs = input.fs
        /\ Unwrap(output).started = <<>>

\* a dry run of init_rust_project with with_fargin set has returned on an
\* empty working directory
C29_Witness ==
    /\ IsSome(output)
    /\ input.fn = "init_rust_project" /\ input.dry_run /\ input.with_fargin
    /\ input.fs = [q \in {<<>>} |-> "dir"]
    /\ Unwrap(output).result.ok

\* C30: init_minimal_project with a project type other than "rust" and
\* "python" returns an error and leaves the filesystem as it was.
C30_UnsupportedType ==
    (/\ IsSome(output) /\ input.fn = "init_minimal_project"
     /\ input.project_type \notin {"rust", "python"}) =>
        /\ ~Unwrap(output).result.ok
        /\ Unwrap(output).fs = input.fs

====
